---- MODULE Spec2Model ----
(***************************************************************************)
(* Model of static/js/copy.js: the copy-to-clipboard click handler, its    *)
(* two clipboard-write paths (navigator.clipboard.writeText and the legacy *)
(* temporary-input + execCommand("copy") fallback) and the toast           *)
(* acknowledgment.  Each click starts one invocation of the async handler; *)
(* an invocation suspends at its awaits and is resumed by later steps, so  *)
(* invocations of distinct clicks interleave.                              *)
(***************************************************************************)
EXTENDS Integers, Sequences, FiniteSets, TLC

\* Number of clicks explored in one page life.
MaxClicks == 2

-----------------------------------------------------------------------------
\* A data-* attribute is <<>> when absent from the element and <<s>> when
\* present with the string value s (dataset yields undefined / s).
Absent == <<>>

Button(text, url) == [copyText |-> text, copyUrl |-> url]

\* buttons = document.querySelectorAll(".js-copy-btn"): one listener each.
\* The page carries a button for each way the two attributes are used:
\* data-copy-text absent, empty or set; data-copy-url absent, empty, or set
\* to "true" or "false".
Buttons ==
    { Button(Absent, Absent),       Button(<<"">>, Absent),
      Button(<<"ABC123">>, Absent), Button(Absent, <<"">>),
      Button(<<"ABC123">>, <<"">>), Button(Absent, <<"true">>),
      Button(<<"ABC123">>, <<"true">>), Button(<<"ABC123">>, <<"false">>) }

\* window.location.href of the page
Hrefs == {"https://example.org/case/42"}

\* navigator.clipboard: missing, present without writeText, or complete.
ClipboardApis == {"absent", "noWriteText", "writeText"}

\* The global `bootstrap`: not loaded, loaded without a usable Toast
\* component, or loaded with Toast.getOrCreateInstance.
Bootstraps == {"undefined", "noToast", "full"}

\* document.execCommand("copy"): returns true, returns false, or throws.
ExecOutcomes == {"true", "false", "throw"}

\* How the promise of navigator.clipboard.writeText settles.
WriteOutcomes == {"ok", "rejected"}

-----------------------------------------------------------------------------
VARIABLES
    clipboardApi,  \* navigator.clipboard capability of this page
    toastEl,       \* TRUE iff document.getElementById("copyToast") is an element
    bootstrap,     \* state of the global `bootstrap`
    href,          \* window.location.href
    invs,          \* handler invocations, in click order
    writes,        \* clipboard write attempts: [inv, text, path]
    created,       \* temporary inputs created: [inv, value]
    tempInputs,    \* temporary inputs currently appended to document.body
    instances,     \* Toast instances existing for the copyToast element
    shown,         \* toast.show() calls: [inv, instance]
    console,       \* console.error entries: [inv, cause]
    unhandled      \* invocations whose error escaped the handler

vars == <<clipboardApi, toastEl, bootstrap, href, invs, writes, created,
          tempInputs, instances, shown, console, unhandled>>

env == <<clipboardApi, toastEl, bootstrap, href>>

-----------------------------------------------------------------------------
\* JavaScript truthiness of a dataset value: undefined and "" are falsy.
Truthy(attr) == attr # Absent /\ attr[1] # ""

\* button.dataset.copyText || ""
LiteralText(b) == IF Truthy(b.copyText) THEN b.copyText[1] ELSE ""

ResolveAlwaysUrl(b, h) == h

\* lines 29-32: the text of the copy request
Resolve(b, h) == IF Truthy(b.copyUrl) THEN h ELSE LiteralText(b)

EmptyGuardOff(text) == FALSE

\* line 33: if (!textToCopy) return;
EmptyGuard(text) == text = ""

UsePrimaryNever(api) == FALSE

UsePrimaryAlways(api) == TRUE

\* line 12: navigator.clipboard && navigator.clipboard.writeText
UsePrimary(api) == api = "writeText"

\* lines 18-21: appendChild(tempInput); select(); execCommand("copy");
\* removeChild(tempInput).  A throwing execCommand skips removeChild.
LegacyCopy(nodes, node, out) ==
    IF out = "throw" THEN nodes \cup {node} ELSE (nodes \cup {node}) \ {node}

ToastNew(insts) ==
    [set |-> insts \cup {Cardinality(insts) + 1}, inst |-> Cardinality(insts) + 1]

\* line 7: bootstrap.Toast.getOrCreateInstance(toastEl, { delay: 1500 })
ToastAcquire(insts) ==
    IF insts = {} THEN [set |-> {1}, inst |-> 1]
    ELSE [set |-> insts, inst |-> CHOOSE x \in insts : TRUE]

\* lines 2-9: showCopiedToast(), called by invocation i
ShowCopiedToast(i) ==
    IF ~toastEl \/ bootstrap = "undefined"
    THEN [instances |-> instances, shown |-> shown, ack |-> "skipped"]
    ELSE IF bootstrap = "noToast"
    THEN [instances |-> instances, shown |-> shown, ack |-> "threw"]
    ELSE LET a == ToastAcquire(instances)
         IN  [instances |-> a.set,
              shown |-> Append(shown, [inv |-> i, instance |-> a.inst]),
              ack |-> "shown"]

LatestResult(s, i) == s[Len(s)].result

\* line 36: the outcome of this invocation's own `await copyText(textToCopy)`
OwnResult(s, i) == s[i].result

CatchMissing(i, cause) ==
    [console |-> console, unhandled |-> Append(unhandled, i)]

\* lines 38-40: catch (error) { console.error("Copy failed:", error); }
Catch(i, cause) ==
    [console |-> Append(console, [inv |-> i, cause |-> cause]),
     unhandled |-> unhandled]

-----------------------------------------------------------------------------
Init ==
    /\ clipboardApi \in ClipboardApis
    /\ toastEl \in BOOLEAN
    /\ bootstrap \in Bootstraps
    /\ href \in Hrefs
    /\ invs = <<>>
    /\ writes = <<>>
    /\ created = <<>>
    /\ tempInputs = {}
    /\ instances = {}
    /\ shown = <<>>
    /\ console = <<>>
    /\ unhandled = <<>>

Invocation(b, text, pc, path, result) ==
    [button |-> b, text |-> text, pc |-> pc, path |-> path,
     result |-> result, ack |-> "none"]

\* lines 27-36 up to the first suspension, with copyText (lines 11-22) run
\* up to its own await or, on the legacy path, to its end.
Click(b) ==
    /\ Len(invs) < MaxClicks
    /\ LET i == Len(invs) + 1
           text == Resolve(b, href)
       IN  IF EmptyGuard(text)
           THEN /\ invs' = Append(invs, Invocation(b, text, "done", "none", "none"))
                /\ UNCHANGED <<writes, created, tempInputs>>
           ELSE IF UsePrimary(clipboardApi)
           THEN /\ writes' = Append(writes, [inv |-> i, text |-> text, path |-> "primary"])
                /\ invs' = Append(invs, Invocation(b, text, "awaitWrite", "primary", "pending"))
                /\ UNCHANGED <<created, tempInputs>>
           ELSE \E out \in ExecOutcomes :
                LET node == [id |-> Len(created) + 1, inv |-> i, value |-> text]
                IN  /\ created' = Append(created, [inv |-> i, value |-> node.value])
                    /\ writes' = Append(writes, [inv |-> i, text |-> node.value, path |-> "legacy"])
                    /\ tempInputs' = LegacyCopy(tempInputs, node, out)
                    /\ invs' = Append(invs, Invocation(b, text, "awaitCopy", "legacy",
                                                       IF out = "throw" THEN "threw" ELSE "ok"))
    /\ UNCHANGED <<env, instances, shown, console, unhandled>>

\* lines 13-14: the writeText promise settles and copyText resumes,
\* returning or rethrowing the rejection.
SettleWrite(i) ==
    /\ i \in DOMAIN invs
    /\ invs[i].pc = "awaitWrite"
    /\ \E r \in WriteOutcomes :
           invs' = [invs EXCEPT ![i].pc = "awaitCopy", ![i].result = r]
    /\ UNCHANGED <<env, writes, created, tempInputs, instances, shown, console, unhandled>>

\* lines 36-40: the handler resumes after `await copyText(...)`.
ResumeHandler(i) ==
    /\ i \in DOMAIN invs
    /\ invs[i].pc = "awaitCopy"
    /\ LET r == OwnResult(invs, i)
       IN  IF r = "ok"
           THEN LET t == ShowCopiedToast(i)
                    c == IF t.ack = "threw" THEN Catch(i, "ack")
                         ELSE [console |-> console, unhandled |-> unhandled]
                IN  /\ instances' = t.instances
                    /\ shown' = t.shown
                    /\ console' = c.console
                    /\ unhandled' = c.unhandled
                    /\ invs' = [invs EXCEPT ![i].pc = "done", ![i].ack = t.ack]
           ELSE LET c == Catch(i, r)
                IN  /\ console' = c.console
                    /\ unhandled' = c.unhandled
                    /\ invs' = [invs EXCEPT ![i].pc = "done"]
                    /\ UNCHANGED <<instances, shown>>
    /\ UNCHANGED <<env, writes, created, tempInputs>>

Next ==
    \/ \E b \in Buttons : Click(b)
    \/ \E i \in 1..MaxClicks : SettleWrite(i)
    \/ \E i \in 1..MaxClicks : ResumeHandler(i)

Spec == Init /\ [][Next]_vars

-----------------------------------------------------------------------------
\* Log entries that belong to invocation i.
WritesOf(i) == {k \in DOMAIN writes : writes[k].inv = i}
CreatedOf(i) == {k \in DOMAIN created : created[k].inv = i}
NodesOf(i) == {n \in tempInputs : n.inv = i}
ShownOf(i) == {k \in DOMAIN shown : shown[k].inv = i}
ConsoleOf(i) == {k \in DOMAIN console : console[k].inv = i}
Failed(i) == invs[i].result \in {"rejected", "threw"} \/ invs[i].ack = "threw"

\* C1 (as stated): whenever data-copy-url is present on the clicked button,
\* whatever its value and whatever data-copy-text holds, the click makes
\* exactly one clipboard write attempt and its text is window.location.href.
C1_UrlFlagPresenceSubmitsHref ==
    \A i \in DOMAIN invs :
        invs[i].button.copyUrl # Absent =>
            /\ Cardinality(WritesOf(i)) = 1
            /\ \A k \in WritesOf(i) : writes[k].text = href

\* C2: a button with a non-empty data-copy-text and no data-copy-url makes
\* exactly one clipboard write attempt, and its text is that attribute's
\* string unchanged.
C2_LiteralTextSubmittedOnce ==
    \A i \in DOMAIN invs :
        (Truthy(invs[i].button.copyText) /\ invs[i].button.copyUrl = Absent) =>
            /\ Cardinality(WritesOf(i)) = 1
            /\ \A k \in WritesOf(i) : writes[k].text = invs[i].button.copyText[1]

C2_Witness ==
    \E i \in DOMAIN invs :
        /\ invs[i].button = [copyText |-> <<"ABC123">>, copyUrl |-> Absent]
        /\ invs[i].pc = "done"
        /\ \E k \in WritesOf(i) : writes[k].text = "ABC123"

\* C3: a click on a button with neither data-copy-text nor data-copy-url
\* changes nothing observable: no write attempt, no temporary input, no
\* toast instance or show, no diagnostic, no escaped error; the invocation
\* it starts is already complete and never acknowledged.
C3_EmptyClickFrame ==
    [][(/\ Len(invs') = Len(invs) + 1
        /\ invs'[Len(invs')].button = [copyText |-> Absent, copyUrl |-> Absent])
       => /\ UNCHANGED <<writes, created, tempInputs, instances, shown,
                         console, unhandled>>
          /\ invs'[Len(invs')].pc = "done"
          /\ invs'[Len(invs')].ack = "none"]_vars

C3_Witness ==
    \E i \in DOMAIN invs :
        /\ invs[i].button = [copyText |-> Absent, copyUrl |-> Absent]
        /\ invs[i].pc = "done"
        /\ WritesOf(i) = {}

\* C4: on a page whose navigator.clipboard.writeText is available, no
\* temporary input is ever created or appended and execCommand("copy") is
\* never invoked, whether the asynchronous write succeeds or is rejected.
C4_PrimaryNeverFallsBack ==
    clipboardApi = "writeText" =>
        /\ created = <<>>
        /\ tempInputs = {}
        /\ \A k \in DOMAIN writes : writes[k].path = "primary"

C4_Witness ==
    /\ clipboardApi = "writeText"
    /\ \E i \in DOMAIN invs : invs[i].pc = "done" /\ invs[i].result = "ok"
    /\ \E j \in DOMAIN invs : invs[j].pc = "done" /\ invs[j].result = "rejected"

\* C5 (as stated): when writeText is unavailable, every completed invocation
\* that had a text to copy created exactly one temporary input holding that
\* text, invoked the copy command once on it, and left no temporary input
\* in the document, even when the copy command failed.
C5_FallbackAlwaysRemovesInput ==
    \A i \in DOMAIN invs :
        (clipboardApi # "writeText" /\ invs[i].pc = "done" /\ invs[i].text # "") =>
            /\ Cardinality(CreatedOf(i)) = 1
            /\ \A k \in CreatedOf(i) : created[k].value = invs[i].text
            /\ Cardinality(WritesOf(i)) = 1
            /\ \A k \in WritesOf(i) : writes[k].path = "legacy"
            /\ NodesOf(i) = {}

\* C6: no error ever escapes the handler; a completed invocation logged
\* exactly one diagnostic if one of its steps raised and none otherwise;
\* an invocation whose write failed never ran the acknowledgment; no
\* invocation makes a second write attempt; nothing is logged for an
\* invocation that has not completed.
C6_ErrorsContained ==
    /\ unhandled = <<>>
    /\ \A i \in DOMAIN invs :
        /\ Cardinality(WritesOf(i)) <= 1
        /\ invs[i].result \in {"rejected", "threw"} =>
               invs[i].ack = "none" /\ ShownOf(i) = {}
        /\ invs[i].pc = "done" =>
               Cardinality(ConsoleOf(i)) = IF Failed(i) THEN 1 ELSE 0
        /\ invs[i].pc # "done" => ConsoleOf(i) = {}

C6_Witness ==
    /\ \E i \in DOMAIN invs :
           invs[i].pc = "done" /\ invs[i].result = "rejected"
           /\ Cardinality(ConsoleOf(i)) = 1
    /\ \E j \in DOMAIN invs :
           invs[j].pc = "done" /\ invs[j].ack = "threw"
           /\ Cardinality(ConsoleOf(j)) = 1

\* C7 (as stated): a completed invocation whose asynchronous write was
\* rejected, or that ran without the asynchronous capability, attempted the
\* legacy copy, and logged a diagnostic for the write only if the fallback
\* itself threw.
C7_RejectionHandledByFallback ==
    \A i \in DOMAIN invs :
        (/\ invs[i].pc = "done"
         /\ invs[i].text # ""
         /\ (invs[i].result = "rejected" \/ clipboardApi # "writeText")) =>
            /\ \E k \in WritesOf(i) : writes[k].path = "legacy"
            /\ \A k \in ConsoleOf(i) :
                   console[k].cause # "ack" => invs[i].result = "threw"

\* C7 (amended): without the asynchronous capability the legacy copy is
\* attempted and the write logs no diagnostic unless the fallback itself
\* threw; a rejected asynchronous write is not retried through the fallback
\* and is logged as exactly one diagnostic carrying the rejection.
C7_AbsentFallsBackRejectionLogged ==
    \A i \in DOMAIN invs :
        /\ (clipboardApi # "writeText" /\ invs[i].text # "") =>
               /\ invs[i].path = "legacy"
               /\ \E k \in WritesOf(i) : writes[k].path = "legacy"
               /\ invs[i].result \in {"ok", "threw"}
               /\ \A k \in ConsoleOf(i) :
                      \/ console[k].cause = "threw" /\ invs[i].result = "threw"
                      \/ console[k].cause = "ack" /\ invs[i].result = "ok"
        /\ (invs[i].result = "rejected" /\ invs[i].pc = "done") =>
               /\ CreatedOf(i) = {}
               /\ \A k \in WritesOf(i) : writes[k].path = "primary"
               /\ Cardinality(ConsoleOf(i)) = 1
               /\ \A k \in ConsoleOf(i) : console[k].cause = "rejected"

C7_Witness ==
    /\ clipboardApi # "writeText"
    /\ \E i \in DOMAIN invs :
           invs[i].pc = "done" /\ invs[i].path = "legacy"
           /\ invs[i].result = "ok" /\ ConsoleOf(i) = {}
    /\ \E j \in DOMAIN invs :
           invs[j].pc = "done" /\ invs[j].result = "threw" /\ ConsoleOf(j) # {}

\* C8 (as stated): after a successful write, when the copyToast element is
\* missing or the toolkit is not loaded or lacks the Toast component, the
\* completed invocation showed no toast, raised nothing and logged nothing.
C8_MissingToastInfrastructureSilent ==
    \A i \in DOMAIN invs :
        (/\ invs[i].pc = "done"
         /\ invs[i].result = "ok"
         /\ (~toastEl \/ bootstrap \in {"undefined", "noToast"})) =>
            /\ ShownOf(i) = {}
            /\ invs[i].ack = "skipped"
            /\ ConsoleOf(i) = {}

\* C9: at most one Toast instance ever exists for the copyToast element,
\* and every show() of every invocation is on that one instance.
C9_SingleToastInstance ==
    /\ Cardinality(instances) <= 1
    /\ \A k \in DOMAIN shown : shown[k].instance \in instances
    /\ \A k, l \in DOMAIN shown : shown[k].instance = shown[l].instance

C9_Witness ==
    /\ Len(shown) >= 2
    /\ \E k, l \in DOMAIN shown : shown[k].inv # shown[l].inv
    /\ Cardinality(instances) = 1

\* C10: every write attempt carries the text its own invocation resolved at
\* its click; an invocation is acknowledged only once its own write has
\* settled successfully and it has resumed; a completed invocation's
\* acknowledgment and diagnostic are decided by its own outcome alone,
\* whatever the other invocations did and in whatever order they completed.
C10_InvocationsIndependent ==
    /\ \A k \in DOMAIN writes : writes[k].text = invs[writes[k].inv].text
    /\ \A k \in DOMAIN shown :
           invs[shown[k].inv].result = "ok" /\ invs[shown[k].inv].pc = "done"
    /\ \A i \in DOMAIN invs :
        /\ invs[i].ack # "none" => invs[i].result = "ok" /\ invs[i].pc = "done"
        /\ (invs[i].pc = "done" /\ invs[i].result = "ok") =>
               /\ invs[i].ack # "none"
               /\ Cardinality(ShownOf(i)) = IF invs[i].ack = "shown" THEN 1 ELSE 0
               /\ \A k \in ConsoleOf(i) : console[k].cause = "ack"
        /\ (invs[i].pc = "done" /\ invs[i].result \in {"rejected", "threw"}) =>
               /\ ShownOf(i) = {}
               /\ Cardinality(ConsoleOf(i)) = 1
               /\ \A k \in ConsoleOf(i) : console[k].cause = invs[i].result
        /\ invs[i].pc # "done" => ShownOf(i) = {} /\ ConsoleOf(i) = {}

\* A later click completes, rejected, while an earlier one that later
\* succeeds is still suspended on its write.
C10_Witness ==
    \E i, j \in DOMAIN invs :
        /\ i < j
        /\ invs[i].pc = "awaitWrite"
        /\ invs[j].pc = "done" /\ invs[j].result = "rejected"
        /\ invs[i].text # invs[j].text

====
